---- MODULE Spec2Model ----
(***************************************************************************)
(* Model of the IoT ingestion endpoint of backend/routes/iot.py:           *)
(* iot_ingest (scoring, risk classification, persistence, dispatch of the   *)
(* broadcast task), get_db (the per-request session) and broadcast_update   *)
(* (the background task).                                                   *)
(*                                                                         *)
(* Floats are modelled as integers in hundredths (0.15 is 15).  The oracle  *)
(* (ml.model), the database session and the websocket manager are external *)
(* to the file: their results are nondeterministic choices.                 *)
(* iot_ingest is a coroutine that awaits nothing: once entered it holds the *)
(* event loop until it returns or raises, and no other coroutine runs in   *)
(* between (variable "running").  broadcast_update gives the loop up at     *)
(* each await, so the tasks interleave with each other and with requests.  *)
(* Every fact and message carries the id of the request that produced it   *)
(* (field "call"); it plays the role of the row identity and is never read  *)
(* by an action.                                                            *)
(***************************************************************************)
EXTENDS Integers, Sequences, FiniteSets, TLC

\* ---------------------------------------------------------------- bounds
NumCalls == 2

Calls == 1..NumCalls

\* IoTInput: the fields the handler reads or stores by name (Weekly_Sales is
\* the value of the AnomalyLog row); two records of different store and
\* department, which two requests may also both send
Inputs == { [store |-> 1, dept |-> 1, Weekly_Sales |-> 2000],
            [store |-> 2, dept |-> 3, Weekly_Sales |-> 60000] }

\* ------------------------------------------------------ program constants
OUTLIER == -1
AnomalyPoints == 40
ScorePoints == 10
ClusterPoints == 20
ScoreThreshold == 15
HighCluster6 == 6
HighCluster7 == 7
HighThreshold == 60
MediumThreshold == 30

\* what the oracle may answer in the request model
\* (the verdict is -1 for an outlier and 1 for a normal record)
Verdicts == {OUTLIER, 1}
OracleScores == {20}
OracleClusters == {1, 7}

\* what the oracle may answer when the classification is checked on its own
WideScores == {-20, -16, -15, -5, 0, 5, 15, 16, 20}
WideClusters == 0..9

VARIABLES
  running,    \* the request whose handler holds the event loop, 0 if none
  pc,         \* pc[c]: position of request c in iot_ingest
  data,       \* data[c]: the IoTInput of request c
  loc,        \* loc[c]: anomaly_flag, anomaly_score, cluster_id, score, level
  session,    \* session[c]: rows added to the request's session, not yet
              \* committed, in the order of the db.add calls
  db,         \* the committed rows of all tables, in commit order
  result,     \* result[c]: the result dict built at lines 136-143
  response,   \* response[c]: what the caller of request c received
  err,        \* err[c]: the statement of request c that raised, if any
  task,       \* task[c]: state of the broadcast_update task of request c
  targs,      \* targs[c]: the (data, result) the task was created with
  sent,       \* messages handed to the websocket manager, in order
  logged,     \* requests whose broadcast_update logged an error
  cancelled   \* requests whose caller went away after the handler returned

vars == <<running, pc, data, loc, session, db, result, response, err, task, targs, sent, logged,
          cancelled>>

NoData == [store |-> 0, dept |-> 0, Weekly_Sales |-> 0]
NoLoc == [anomaly_flag |-> 0, anomaly_score |-> 0, cluster_id |-> 0,
          score |-> 0, level |-> "unset"]
NoResult == [status |-> "none", anomaly |-> 0, anomaly_score |-> 0,
             cluster |-> 0, risk_level |-> "unset", risk_score |-> 0]
NoArgs == [data |-> NoData, result |-> NoResult]

\* what the caller has received: nothing yet, the result, or a server error
NoResponse == [code |-> "none", body |-> NoResult]
ServerError == [code |-> "error", body |-> NoResult]
Success(r) == [code |-> "ok", body |-> r]

Abs(x) == IF x < 0 THEN -x ELSE x

\* ------------------------------------------------- risk score, lines 103-112
\* the anomaly-score magnitude weighted like the cluster
RiskScoreHeavyMagnitude(flag, ascore, cluster) ==
  (IF flag = OUTLIER THEN AnomalyPoints ELSE 0)
  + (IF Abs(ascore) > ScoreThreshold THEN ClusterPoints ELSE 0)
  + (IF cluster \in {HighCluster6, HighCluster7} THEN ClusterPoints ELSE 0)

RiskScore(flag, ascore, cluster) ==
  (IF flag = OUTLIER THEN AnomalyPoints ELSE 0)
  + (IF Abs(ascore) > ScoreThreshold THEN ScorePoints ELSE 0)
  + (IF cluster \in {HighCluster6, HighCluster7} THEN ClusterPoints ELSE 0)

\* the HIGH threshold read as exclusive
RiskLevelExclusive(score) ==
  IF score > HighThreshold THEN "HIGH"
  ELSE IF score >= MediumThreshold THEN "MEDIUM"
  ELSE "LOW"

RiskLevel(score) ==
  IF score >= HighThreshold THEN "HIGH"
  ELSE IF score >= MediumThreshold THEN "MEDIUM"
  ELSE "LOW"

\* ------------------------------------------------------------ the rows
AnomalyLog(c, d, ascore, flag) ==
  [kind |-> "AnomalyLog", call |-> c, value |-> d.Weekly_Sales,
   score |-> ascore, is_anomaly |-> (flag = OUTLIER)]

\* the row built from the record of the first request (a shared record)
ClusterLogShared(c, d, cluster) ==
  [kind |-> "ClusterLog", call |-> c, store |-> data[1].store, dept |-> data[1].dept,
   cluster |-> cluster, features |-> data[1]]

ClusterLog(c, d, cluster) ==
  [kind |-> "ClusterLog", call |-> c, store |-> d.store, dept |-> d.dept,
   cluster |-> cluster, features |-> d]

RiskLog(c, d, l) ==
  [kind |-> "RiskLog", call |-> c, store |-> d.store, dept |-> d.dept,
   risk_score |-> l.score, risk_level |-> l.level,
   anomaly |-> l.anomaly_flag, cluster |-> l.cluster_id]

Alert(c, d, l) ==
  [kind |-> "Alert", call |-> c, store |-> d.store, dept |-> d.dept,
   risk_score |-> l.score]

\* db.add: the row is pending in the session
SessionAdd(s, row) == Append(s, row)

\* a commit that makes the rows durable one by one and stops after the first
PersistFirstRow(d, pending) == d \o SubSeq(pending, 1, 1)

\* a commit that skips a row equal to one already in the table
PersistDeduplicated(d, pending) ==
  d \o SelectSeq(pending,
                 LAMBDA r : ~ \E i \in 1..Len(d) :
                                [d[i] EXCEPT !.call = 0] = [r EXCEPT !.call = 0])

\* db.commit: every pending row becomes durable in one transaction
Persist(d, pending) == d \o pending

\* a close that flushes the pending rows
RollbackFlush(d, pending) == d \o pending

\* get_db's finally: db.close() discards what was never committed
Rollback(d, pending) == d

\* ------------------------------------------------------------ Init
Init ==
  /\ running = 0
  /\ pc = [c \in Calls |-> "idle"]
  /\ data = [c \in Calls |-> NoData]
  /\ loc = [c \in Calls |-> NoLoc]
  /\ session = [c \in Calls |-> <<>>]
  /\ db = <<>>
  /\ result = [c \in Calls |-> NoResult]
  /\ response = [c \in Calls |-> NoResponse]
  /\ err = [c \in Calls |-> "none"]
  /\ task = [c \in Calls |-> "none"]
  /\ targs = [c \in Calls |-> NoArgs]
  /\ sent = <<>>
  /\ logged = {}
  /\ cancelled = {}

\* ------------------------------------------------------------ iot_ingest
\* the handler of request c holds the event loop and is at the given place
At(c, place) == running = c /\ pc[c] = place

\* the request arrives: FastAPI validates the body and opens the session
Receive(c) ==
  /\ running = 0
  /\ pc[c] = "idle"
  /\ running' = c
  /\ \E d \in Inputs : data' = [data EXCEPT ![c] = d]
  /\ pc' = [pc EXCEPT ![c] = "detect"]
  /\ UNCHANGED <<loc, session, db, result, response, err, task, targs, sent,
                 logged, cancelled>>

\* an exception that is caught and ignored: the handler goes on
RaiseIgnored(c, where) ==
  /\ pc' = [pc EXCEPT ![c] = "build"]
  /\ err' = [err EXCEPT ![c] = where]
  /\ db' = Rollback(db, session[c])
  /\ session' = [session EXCEPT ![c] = <<>>]
  /\ UNCHANGED <<running, data, loc, result, response, task, targs, sent,
                 logged, cancelled>>

\* an exception leaves the handler: the caller gets a server error and
\* get_db closes the session
Raise(c, where) ==
  /\ pc' = [pc EXCEPT ![c] = "raised"]
  /\ running' = 0
  /\ err' = [err EXCEPT ![c] = where]
  /\ response' = [response EXCEPT ![c] = ServerError]
  /\ db' = Rollback(db, session[c])
  /\ session' = [session EXCEPT ![c] = <<>>]
  /\ UNCHANGED <<data, loc, result, task, targs, sent, logged, cancelled>>

\* lines 83-92
DetectAnomalies(c) ==
  /\ At(c, "detect")
  /\ \E flag \in Verdicts, ascore \in OracleScores :
       /\ loc' = [loc EXCEPT ![c].anomaly_flag = flag, ![c].anomaly_score = ascore]
       /\ session' = [session EXCEPT
                        ![c] = SessionAdd(@, AnomalyLog(c, data[c], ascore, flag))]
  /\ pc' = [pc EXCEPT ![c] = "cluster"]
  /\ UNCHANGED <<running, data, db, result, response, err, task, targs, sent,
                 logged, cancelled>>

DetectAnomaliesFails(c) ==
  /\ At(c, "detect")
  /\ Raise(c, "detect_anomalies")

\* lines 95-101
Cluster(c) ==
  /\ At(c, "cluster")
  /\ \E k \in OracleClusters :
       /\ loc' = [loc EXCEPT ![c].cluster_id = k]
       /\ session' = [session EXCEPT
                        ![c] = SessionAdd(@, ClusterLog(c, data[c], k))]
  /\ pc' = [pc EXCEPT ![c] = "classify"]
  /\ UNCHANGED <<running, data, db, result, response, err, task, targs, sent,
                 logged, cancelled>>

ClusterFails(c) ==
  /\ At(c, "cluster")
  /\ Raise(c, "cluster")

\* an alert for every level above LOW
NeedsAlertAboveLow(level) == level # "LOW"

\* line 125
NeedsAlert(level) == level = "HIGH"

\* lines 103-131
Classify(c) ==
  /\ At(c, "classify")
  /\ LET s == RiskScore(loc[c].anomaly_flag, loc[c].anomaly_score, loc[c].cluster_id)
         l == [loc[c] EXCEPT !.score = s, !.level = RiskLevel(s)]
         withRisk == SessionAdd(session[c], RiskLog(c, data[c], l))
     IN /\ loc' = [loc EXCEPT ![c] = l]
        /\ session' = [session EXCEPT
                         ![c] = IF NeedsAlert(l.level)
                                THEN SessionAdd(withRisk, Alert(c, data[c], l))
                                ELSE withRisk]
  /\ pc' = [pc EXCEPT ![c] = "commit"]
  /\ UNCHANGED <<running, data, db, result, response, err, task, targs, sent,
                 logged, cancelled>>

\* line 133
Commit(c) ==
  /\ At(c, "commit")
  /\ db' = Persist(db, session[c])
  /\ session' = [session EXCEPT ![c] = <<>>]
  /\ pc' = [pc EXCEPT ![c] = "build"]
  /\ UNCHANGED <<running, data, loc, result, response, err, task, targs,
                 sent, logged, cancelled>>

CommitFails(c) ==
  /\ At(c, "commit")
  /\ Raise(c, "commit")

\* lines 136-143
BuildResult(c) ==
  /\ At(c, "build")
  /\ result' = [result EXCEPT ![c] =
                  [status |-> "success",
                   anomaly |-> loc[c].anomaly_flag,
                   anomaly_score |-> loc[c].anomaly_score,
                   cluster |-> loc[c].cluster_id,
                   risk_level |-> loc[c].level,
                   risk_score |-> loc[c].score]]
  /\ pc' = [pc EXCEPT ![c] = "dispatch"]
  /\ UNCHANGED <<running, data, loc, session, db, response, err, task, targs,
                 sent, logged, cancelled>>

\* the task created as soon as the rows are pending, before the commit
DispatchBeforeCommit(c) == At(c, "commit") \/ At(c, "dispatch")

\* the handler is at line 147
DispatchReady(c) == At(c, "dispatch")

\* line 147: asyncio.create_task(broadcast_update(data.dict(), result))
Dispatch(c) ==
  /\ DispatchReady(c)
  /\ task[c] = "none"
  /\ task' = [task EXCEPT ![c] = "scheduled"]
  /\ targs' = [targs EXCEPT ![c] = [data |-> data[c], result |-> result[c]]]
  /\ pc' = [pc EXCEPT ![c] = "return"]
  /\ UNCHANGED <<running, data, loc, session, db, result, response, err,
                 sent, logged, cancelled>>

\* a return that waits for the broadcast to end
ReturnAfterBroadcast(c) == At(c, "return") /\ task[c] \in {"done", "failed"}

\* the handler is at line 151: nothing is awaited between 147 and 151
ReturnReady(c) == At(c, "return")

\* line 151
Return(c) ==
  /\ ReturnReady(c)
  /\ response' = [response EXCEPT ![c] = Success(result[c])]
  /\ pc' = [pc EXCEPT ![c] = "returned"]
  /\ running' = 0
  /\ UNCHANGED <<data, loc, session, db, result, err, task, targs, sent,
                 logged, cancelled>>

\* ------------------------------------------------------ broadcast_update
\* the messages of websocket_manager
IotUpdateMsg(c, a) ==
  [type |-> "iot_update", call |-> c, data |-> a.data, result |-> a.result]

\* the second message sent with the shape of the first
AlertMsgAsUpdate(c, a) == IotUpdateMsg(c, a)

\* the alert built with a key the result does not have: no risk score
AlertMsgNoScore(c, a) ==
  [type |-> "alert", call |-> c, store |-> a.data.store, dept |-> a.data.dept,
   risk_score |-> 0]

AlertMsg(c, a) ==
  [type |-> "alert", call |-> c, store |-> a.data.store, dept |-> a.data.dept,
   risk_score |-> a.result.risk_score]

\* a task runs when no handler holds the event loop; the task of request c
\* exists only from line 147 on, so by then the handler of c has returned
TaskMayRun(c) == running = 0

\* the task is entered: line 38
TaskStart(c) ==
  /\ task[c] = "scheduled"
  /\ TaskMayRun(c)
  /\ task' = [task EXCEPT ![c] = "update"]
  /\ UNCHANGED <<running, pc, data, loc, session, db, result, response, err,
                 targs, sent, logged, cancelled>>

\* the alert never sent
AfterUpdateNever(r) == "done"

\* the alert sent whatever the level
AfterUpdateAlways(r) == "alert"

\* line 42
AfterUpdate(r) == IF r.risk_level = "HIGH" THEN "alert" ELSE "done"

\* line 39
BroadcastIotUpdate(c) ==
  /\ task[c] = "update"
  /\ TaskMayRun(c)
  /\ sent' = Append(sent, IotUpdateMsg(c, targs[c]))
  /\ task' = [task EXCEPT ![c] = AfterUpdate(targs[c].result)]
  /\ UNCHANGED <<running, pc, data, loc, session, db, result, response, err,
                 targs, logged, cancelled>>

\* the exception reaches the request
SwallowNothing(r) == ServerError

\* lines 49-50: the exception is logged and goes no further
Swallow(r) == r

\* line 39 raises (before or after the message left), lines 49-50
BroadcastIotUpdateFails(c) ==
  /\ task[c] = "update"
  /\ TaskMayRun(c)
  /\ \E left \in BOOLEAN :
       sent' = IF left THEN Append(sent, IotUpdateMsg(c, targs[c])) ELSE sent
  /\ task' = [task EXCEPT ![c] = "failed"]
  /\ logged' = logged \cup {c}
  /\ response' = [response EXCEPT ![c] = Swallow(@)]
  /\ UNCHANGED <<running, pc, data, loc, session, db, result, err, targs,
                 cancelled>>

\* lines 43-48
BroadcastAlert(c) ==
  /\ task[c] = "alert"
  /\ TaskMayRun(c)
  /\ sent' = Append(sent, AlertMsg(c, targs[c]))
  /\ task' = [task EXCEPT ![c] = "done"]
  /\ UNCHANGED <<running, pc, data, loc, session, db, result, response, err,
                 targs, logged, cancelled>>

\* lines 43-48 raise (before or after the message left), lines 49-50
BroadcastAlertFails(c) ==
  /\ task[c] = "alert"
  /\ TaskMayRun(c)
  /\ \E left \in BOOLEAN :
       sent' = IF left THEN Append(sent, AlertMsg(c, targs[c])) ELSE sent
  /\ task' = [task EXCEPT ![c] = "failed"]
  /\ logged' = logged \cup {c}
  /\ response' = [response EXCEPT ![c] = Swallow(@)]
  /\ UNCHANGED <<running, pc, data, loc, session, db, result, err, targs,
                 cancelled>>

\* ------------------------------------------------------ the caller leaves
\* the task cancelled together with the request that created it
TaskCancelledWithCaller(t) ==
  IF t \in {"scheduled", "update", "alert"} THEN "cancelled" ELSE t

\* line 147: the task belongs to the event loop, not to the request, and
\* nothing of the request is handed to it but the two dicts
TaskAfterCancel(t) == t

\* the caller of request c goes away (disconnect, cancelled calling context).
\* The handler awaits nothing, so a cancellation cannot land inside it: it is
\* seen once the handler has returned.
CallerCancelled(c) ==
  /\ running = 0
  /\ pc[c] = "returned"
  /\ c \notin cancelled
  /\ cancelled' = cancelled \cup {c}
  /\ task' = [task EXCEPT ![c] = TaskAfterCancel(@)]
  /\ UNCHANGED <<running, pc, data, loc, session, db, result, response, err,
                 targs, sent, logged>>

\* ------------------------------------------------------------ Next
Next ==
  \E c \in Calls :
    \/ Receive(c)
    \/ DetectAnomalies(c)
    \/ DetectAnomaliesFails(c)
    \/ Cluster(c)
    \/ ClusterFails(c)
    \/ Classify(c)
    \/ Commit(c)
    \/ CommitFails(c)
    \/ BuildResult(c)
    \/ Dispatch(c)
    \/ Return(c)
    \/ TaskStart(c)
    \/ BroadcastIotUpdate(c)
    \/ BroadcastIotUpdateFails(c)
    \/ BroadcastAlert(c)
    \/ BroadcastAlertFails(c)

Spec == Init /\ [][Next]_vars

\* ------------------------------------------------------------ scheduling
\* the statements of the handler of request c, once it has been entered
HandlerStep(c) ==
  \/ DetectAnomalies(c)
  \/ DetectAnomaliesFails(c)
  \/ Cluster(c)
  \/ ClusterFails(c)
  \/ Classify(c)
  \/ Commit(c)
  \/ CommitFails(c)
  \/ BuildResult(c)
  \/ Dispatch(c)
  \/ Return(c)

\* the steps of the broadcast_update task of request c
TaskStep(c) ==
  \/ TaskStart(c)
  \/ BroadcastIotUpdate(c)
  \/ BroadcastIotUpdateFails(c)
  \/ BroadcastAlert(c)
  \/ BroadcastAlertFails(c)

\* a handler that was entered runs on (it is synchronous code), and the event
\* loop runs every task it holds: each awaited broadcast returns or raises
Fairness ==
  \A c \in Calls : WF_vars(HandlerStep(c)) /\ WF_vars(TaskStep(c))

SpecFair == Spec /\ Fairness

\* the requests, the tasks and callers that go away
CancelNext == Next \/ \E c \in Calls : CallerCancelled(c)

SpecCancel == Init /\ [][CancelNext]_vars

\* ------------------------------------------- the classification on its own
\* request 1 has both oracle answers, of any value, and is about to classify
ClassifyInit ==
  \E d \in Inputs, flag \in Verdicts, ascore \in WideScores, k \in WideClusters :
    /\ running = 1
    /\ pc = [c \in Calls |-> IF c = 1 THEN "classify" ELSE "idle"]
    /\ data = [c \in Calls |-> IF c = 1 THEN d ELSE NoData]
    /\ loc = [c \in Calls |->
                IF c = 1
                THEN [NoLoc EXCEPT !.anomaly_flag = flag, !.anomaly_score = ascore,
                                   !.cluster_id = k]
                ELSE NoLoc]
    /\ session = [c \in Calls |->
                    IF c = 1
                    THEN <<AnomalyLog(1, d, ascore, flag), ClusterLog(1, d, k)>>
                    ELSE <<>>]
    /\ db = <<>>
    /\ result = [c \in Calls |-> NoResult]
    /\ response = [c \in Calls |-> NoResponse]
    /\ err = [c \in Calls |-> "none"]
    /\ task = [c \in Calls |-> "none"]
    /\ targs = [c \in Calls |-> NoArgs]
    /\ sent = <<>>
    /\ logged = {}
    /\ cancelled = {}

ClassifyNext == \E c \in Calls : Classify(c)

SpecClassify == ClassifyInit /\ [][ClassifyNext]_vars

\* the same request followed from its classification to the end of its task
PipelineNext ==
  \E c \in Calls :
    \/ Classify(c)
    \/ Commit(c)
    \/ CommitFails(c)
    \/ BuildResult(c)
    \/ Dispatch(c)
    \/ Return(c)
    \/ TaskStart(c)
    \/ BroadcastIotUpdate(c)
    \/ BroadcastIotUpdateFails(c)
    \/ BroadcastAlert(c)
    \/ BroadcastAlertFails(c)

SpecPipeline == ClassifyInit /\ [][PipelineNext]_vars

\* ------------------------------------------------------------ observers
\* the committed rows of request c, of one table or of all
RowsOf(c, kind) == SelectSeq(db, LAMBDA r : r.call = c /\ r.kind = kind)
AllRowsOf(c) == SelectSeq(db, LAMBDA r : r.call = c)
\* the messages broadcast for request c
SentOf(c) == SelectSeq(sent, LAMBDA m : m.call = c)
Bit(b) == IF b THEN 1 ELSE 0
Classified(c) == loc[c].level # "unset"

\* ------------------------------------------------------------ claims

\* C1: the risk score is 40*[outlier] + 10*[|anomaly score| > 0.15] +
\* 20*[cluster in {6,7}], lies in 0..70, and the level is HIGH iff the score
\* is at least 60, MEDIUM iff it is in 30..59, LOW iff it is below 30.
C1_RiskScoreAndLevel ==
  \A c \in Calls :
    Classified(c) =>
      LET l == loc[c]
          expected == 40 * Bit(l.anomaly_flag = -1)
                      + 10 * Bit(l.anomaly_score > 15 \/ l.anomaly_score < -15)
                      + 20 * Bit(l.cluster_id = 6 \/ l.cluster_id = 7)
      IN /\ l.score = expected
         /\ l.score \in 0..70
         /\ (l.level = "HIGH") <=> (l.score >= 60)
         /\ (l.level = "MEDIUM") <=> (l.score >= 30 /\ l.score < 60)
         /\ (l.level = "LOW") <=> (l.score < 30)

\* C1 witness: a classified request whose score is exactly 60 (outlier, small
\* anomaly score, high-risk cluster) and whose level is HIGH
C1_Witness ==
  \E c \in Calls :
    /\ Classified(c)
    /\ loc[c].score = 60
    /\ loc[c].level = "HIGH"
    /\ Abs(loc[c].anomaly_score) <= 15

\* C2: an Alert row is committed for a request iff the RiskLog row committed
\* for that request has level HIGH, and then exactly one.
C2_AlertIffHigh ==
  \A c \in Calls :
    LET high == \E i \in 1..Len(db) :
                  /\ db[i].kind = "RiskLog"
                  /\ db[i].call = c
                  /\ db[i].risk_level = "HIGH"
    IN Len(RowsOf(c, "Alert")) = Bit(high)

\* C2 witness: one request committed an Alert, and another committed its rows
\* without one
C2_Witness ==
  \E c1, c2 \in Calls :
    /\ Len(RowsOf(c1, "Alert")) = 1
    /\ Len(RowsOf(c2, "RiskLog")) = 1
    /\ Len(RowsOf(c2, "Alert")) = 0

\* C3: the committed rows of a request are either none, or all of them: one
\* AnomalyLog, one ClusterLog, one RiskLog, and one Alert exactly when the
\* level is HIGH.
C3_AtomicFacts ==
  \A c \in Calls :
    LET rows == AllRowsOf(c)
        count(kind) == Len(SelectSeq(rows, LAMBDA r : r.kind = kind))
        risk == SelectSeq(rows, LAMBDA r : r.kind = "RiskLog")
    IN \/ rows = <<>>
       \/ /\ count("AnomalyLog") = 1
          /\ count("ClusterLog") = 1
          /\ Len(risk) = 1
          /\ count("Alert") = Bit(risk[1].risk_level = "HIGH")
          /\ Len(rows) = 3 + count("Alert")

\* C3 witness: a request has committed four rows while another request has
\* rows pending in its session and none committed
C3_Witness ==
  \E c1, c2 \in Calls :
    /\ Len(AllRowsOf(c1)) = 4
    /\ Len(session[c2]) > 0
    /\ AllRowsOf(c2) = <<>>

\* C4: a request whose oracle call failed has no committed row, no broadcast
\* task and no message, and the failing step changes neither the store nor
\* the messages.
C4_OracleFailure ==
  /\ [](\A c \in Calls :
          err[c] \in {"detect_anomalies", "cluster"} =>
            /\ AllRowsOf(c) = <<>>
            /\ session[c] = <<>>
            /\ task[c] = "none"
            /\ SentOf(c) = <<>>
            /\ response[c] = ServerError)
  /\ [][\A c \in Calls :
          (err[c] = "none" /\ err'[c] \in {"detect_anomalies", "cluster"}) =>
            (db' = db /\ sent' = sent /\ task' = task)]_vars

\* C4 witness: cluster failed after detect_anomalies had succeeded
C4_Witness ==
  \E c \in Calls :
    /\ err[c] = "cluster"
    /\ loc[c].anomaly_flag # 0

\* C5: a request whose commit failed ended in an error, has no committed row,
\* no result and no broadcast task or message.
C5_CommitFailure ==
  \A c \in Calls :
    err[c] = "commit" =>
      /\ response[c] = ServerError
      /\ pc[c] = "raised"
      /\ AllRowsOf(c) = <<>>
      /\ result[c] = NoResult
      /\ task[c] = "none"
      /\ SentOf(c) = <<>>

\* C5 witness: the commit of a HIGH request failed
C5_Witness ==
  \E c \in Calls :
    /\ err[c] = "commit"
    /\ loc[c].level = "HIGH"

\* C6: a request that committed has exactly one AnomalyLog, one ClusterLog and
\* one RiskLog row, the RiskLog's anomaly value read as a flag equals the
\* AnomalyLog's is_anomaly, and the RiskLog's cluster equals the ClusterLog's.
C6_FactsMirror ==
  \A c \in Calls :
    AllRowsOf(c) # <<>> =>
      /\ Len(RowsOf(c, "AnomalyLog")) = 1
      /\ Len(RowsOf(c, "ClusterLog")) = 1
      /\ Len(RowsOf(c, "RiskLog")) = 1
      /\ (RowsOf(c, "RiskLog")[1].anomaly # 0) = RowsOf(c, "AnomalyLog")[1].is_anomaly
      /\ RowsOf(c, "RiskLog")[1].cluster = RowsOf(c, "ClusterLog")[1].cluster

\* C7: a request whose broadcast task failed has returned its result, and its
\* committed rows are all there; the failing step changes neither the response
\* nor the store.
C7_BroadcastCannotFailIngest ==
  /\ [](\A c \in Calls :
          task[c] = "failed" =>
            /\ pc[c] = "returned"
            /\ response[c] = Success(result[c])
            /\ result[c].status = "success"
            /\ Len(AllRowsOf(c)) = 3 + Bit(result[c].risk_level = "HIGH"))
  /\ [][\A c \in Calls :
          (task[c] # "failed" /\ task'[c] = "failed") =>
            (response' = response /\ db' = db /\ pc' = pc)]_vars

\* C7 witness: the alert broadcast of a request failed
C7_Witness ==
  \E c \in Calls :
    /\ task[c] = "failed"
    /\ c \in logged
    /\ result[c].risk_level = "HIGH"
    /\ \E i \in 1..Len(sent) : sent[i].call = c /\ sent[i].type = "iot_update"

\* C8: once the task is created the return is enabled, and a task that has
\* begun executing belongs to a request that has already returned.
C8_ReturnNotGated ==
  \A c \in Calls :
    /\ (pc[c] = "return" => ENABLED Return(c))
    /\ (task[c] \in {"update", "alert", "done", "failed"} => response[c].code = "ok")

\* C8 witness: the response has been returned and the task has not begun
C8_Witness ==
  \E c \in Calls :
    /\ response[c].code = "ok"
    /\ task[c] = "scheduled"

\* C9: a request whose task has been created, or for which a message was
\* broadcast, has committed its rows and built its result.
C9_BroadcastAfterPersist ==
  \A c \in Calls :
    (task[c] # "none" \/ SentOf(c) # <<>>) =>
      /\ Len(RowsOf(c, "RiskLog")) = 1
      /\ result[c].status = "success"

\* C9 witness: the task of a request has just been created
C9_Witness ==
  \E c \in Calls :
    /\ task[c] = "scheduled"
    /\ pc[c] = "return"

\* C10: every alert message belongs to a request of level HIGH and comes
\* after the iot_update message of the same request.
C10_AlertOnlyHighAfterUpdate ==
  \A i \in 1..Len(sent) :
    sent[i].type = "alert" =>
      /\ loc[sent[i].call].level = "HIGH"
      /\ \E j \in 1..(i - 1) :
           /\ sent[j].type = "iot_update"
           /\ sent[j].call = sent[i].call

\* C10 witness: an alert message was broadcast while another request's
\* messages are in the log too
C10_Witness ==
  \E i, j \in 1..Len(sent) :
    /\ sent[i].type = "alert"
    /\ sent[j].call # sent[i].call

\* the messages a task that ran to its end without an exception has sent
FullBroadcast(c) ==
  IF targs[c].result.risk_level = "HIGH"
  THEN <<IotUpdateMsg(c, targs[c]), AlertMsg(c, targs[c])>>
  ELSE <<IotUpdateMsg(c, targs[c])>>

\* C11 as stated: the task of a successful request that has ended has
\* broadcast the iot_update of the request, and the alert when the level is
\* HIGH.
C11_AlwaysBroadcast ==
  \A c \in Calls :
    task[c] \in {"done", "failed"} =>
      /\ \E i \in 1..Len(sent) : sent[i] = IotUpdateMsg(c, targs[c])
      /\ (result[c].risk_level = "HIGH" =>
            \E i \in 1..Len(sent) : sent[i] = AlertMsg(c, targs[c]))

\* C11 amended: under fair scheduling the task of every successful request
\* ends; it ends either having logged an error, or having broadcast the
\* iot_update with the request's record and result, followed by the alert
\* when the level is HIGH.
C11_BroadcastOrLoggedFailure ==
  \A c \in Calls :
    (response[c].code = "ok") ~>
      (\/ (task[c] = "failed" /\ c \in logged)
       \/ (/\ task[c] = "done"
           /\ targs[c] = [data |-> data[c], result |-> result[c]]
           /\ SentOf(c) = FullBroadcast(c)))

\* C11 witness: the task of a HIGH request ended after both messages
C11_Witness ==
  \E c \in Calls :
    /\ task[c] = "done"
    /\ result[c].risk_level = "HIGH"
    /\ Len(SentOf(c)) = 2

\* C12: every committed row, every returned result and every broadcast
\* message carries the store, department, anomaly, cluster and risk values of
\* the request that produced it.
C12_NoCrossTalk ==
  \A c \in Calls :
    LET d == data[c]
        l == loc[c]
        b == response[c].body
    IN /\ \A i \in 1..Len(db) :
            LET r == db[i]
            IN r.call = c =>
                 CASE r.kind = "AnomalyLog" ->
                        /\ r.value = d.Weekly_Sales
                        /\ r.score = l.anomaly_score
                        /\ r.is_anomaly = (l.anomaly_flag = -1)
                   [] r.kind = "ClusterLog" ->
                        /\ r.store = d.store /\ r.dept = d.dept
                        /\ r.cluster = l.cluster_id
                        /\ r.features = d
                   [] r.kind = "RiskLog" ->
                        /\ r.store = d.store /\ r.dept = d.dept
                        /\ r.risk_score = l.score /\ r.risk_level = l.level
                        /\ r.anomaly = l.anomaly_flag /\ r.cluster = l.cluster_id
                   [] r.kind = "Alert" ->
                        /\ r.store = d.store /\ r.dept = d.dept
                        /\ r.risk_score = l.score
       /\ response[c].code = "ok" =>
            /\ b.anomaly = l.anomaly_flag
            /\ b.anomaly_score = l.anomaly_score
            /\ b.cluster = l.cluster_id
            /\ b.risk_level = l.level
            /\ b.risk_score = l.score
       /\ \A i \in 1..Len(sent) :
            LET m == sent[i]
            IN m.call = c =>
                 CASE m.type = "iot_update" -> m.data = d /\ m.result = b
                   [] m.type = "alert" ->
                        /\ m.store = d.store /\ m.dept = d.dept
                        /\ m.risk_score = l.score

\* C12 witness: two requests of different store and department have both
\* committed, and their broadcasts interleave (update, other update, alert)
C12_Witness ==
  \E c1, c2 \in Calls :
    /\ data[c1].store # data[c2].store
    /\ data[c1].dept # data[c2].dept
    /\ Len(RowsOf(c1, "RiskLog")) = 1
    /\ Len(RowsOf(c2, "RiskLog")) = 1
    /\ \E i, j, k \in 1..Len(sent) :
         /\ i < j /\ j < k
         /\ sent[i].call = c1 /\ sent[j].call = c2 /\ sent[k].call = c1

\* C13: the step in which the caller of a request goes away leaves the
\* request's task and its arguments as they are, and whenever the event loop
\* is free a pending task of such a request can take its next step.
C13_CancelKeepsBroadcast ==
  /\ [][\A c \in Calls :
          (c \notin cancelled /\ c \in cancelled') =>
            (task' = task /\ targs' = targs /\ sent' = sent)]_vars
  /\ [](\A c \in Calls :
          (c \in cancelled) =>
            /\ task[c] \in {"scheduled", "update", "alert", "done", "failed"}
            /\ (task[c] \in {"scheduled", "update", "alert"} /\ running = 0
                  => ENABLED TaskStep(c)))

\* C13 witness: the caller of a HIGH request went away before its task began,
\* and the task has broadcast both messages
C13_Witness ==
  \E c \in Calls :
    /\ c \in cancelled
    /\ task[c] = "done"
    /\ Len(SentOf(c)) = 2
    /\ \E d \in Calls : d # c /\ pc[d] # "idle"

\* the requests whose commit succeeded
Committed(c) == pc[c] \in {"build", "dispatch", "return", "returned"}

\* C14: the number of committed Alert rows is the number of committed
\* requests of level HIGH, and every committed request has added three rows,
\* and a fourth when HIGH, whatever the store already held.
C14_NoDeduplication ==
  LET high == {c \in Calls : Committed(c) /\ loc[c].level = "HIGH"}
      all == {c \in Calls : Committed(c)}
  IN /\ Len(SelectSeq(db, LAMBDA r : r.kind = "Alert")) = Cardinality(high)
     /\ Len(db) = 3 * Cardinality(all) + Cardinality(high)

\* C14 witness: two requests with the same record and the same oracle answers
\* have both committed, and the store holds two alerts for that store and
\* department
C14_Witness ==
  \E c1, c2 \in Calls :
    /\ c1 # c2
    /\ data[c1] = data[c2]
    /\ loc[c1] = loc[c2]
    /\ Len(RowsOf(c1, "Alert")) = 1
    /\ Len(RowsOf(c2, "Alert")) = 1
    /\ RowsOf(c1, "Alert")[1].store = RowsOf(c2, "Alert")[1].store
    /\ RowsOf(c1, "Alert")[1].dept = RowsOf(c2, "Alert")[1].dept

\* C15: the anomaly field of a returned result, and of the result in an
\* iot_update message, read as a flag (0 is false, anything else true), is
\* true exactly when the oracle's verdict is outlier.
C15_AnomalyFieldIsFlag ==
  /\ \A c \in Calls :
       response[c].code = "ok" =>
         ((response[c].body.anomaly # 0) <=> (loc[c].anomaly_flag = OUTLIER))
  /\ \A i \in 1..Len(sent) :
       sent[i].type = "iot_update" =>
         ((sent[i].result.anomaly # 0) <=> (loc[sent[i].call].anomaly_flag = OUTLIER))

\* the kinds of the rows pending in the session of request c, in order
PendingKinds(c) == [i \in 1..Len(session[c]) |-> session[c][i].kind]

\* C16 as stated: no row of a request is in its session before both oracle
\* calls of the request have completed.
C16_NoFactBeforeOracles ==
  \A c \in Calls :
    session[c] # <<>> => pc[c] \notin {"detect", "cluster"}

\* C16 amended: no row of a request is committed before both oracle calls and
\* the classification of the request have completed; the session receives
\* the AnomalyLog after detect_anomalies and before cluster is called, then
\* the ClusterLog, then the RiskLog and the Alert.
C16_CommitAfterOraclesAndClassifier ==
  \A c \in Calls :
    /\ (\E i \in 1..Len(db) : db[i].call = c) =>
         /\ Classified(c)
         /\ loc[c].anomaly_flag # 0
         /\ loc[c].cluster_id # 0
         /\ Committed(c)
    /\ pc[c] = "detect" => PendingKinds(c) = <<>>
    /\ pc[c] = "cluster" => PendingKinds(c) = <<"AnomalyLog">>
    /\ pc[c] = "classify" => PendingKinds(c) = <<"AnomalyLog", "ClusterLog">>
    /\ pc[c] = "commit" =>
         PendingKinds(c) \in {<<"AnomalyLog", "ClusterLog", "RiskLog">>,
                              <<"AnomalyLog", "ClusterLog", "RiskLog", "Alert">>}

\* C16 witness: a request has its AnomalyLog pending while its cluster call
\* has not been made, and another request has committed
C16_Witness ==
  \E c1, c2 \in Calls :
    /\ pc[c1] = "cluster"
    /\ Len(session[c1]) = 1
    /\ loc[c1].cluster_id = 0
    /\ AllRowsOf(c2) # <<>>

\* C17 as stated: every alert message comes directly after the iot_update
\* message of the same request.
C17_AlertAdjacentToUpdate ==
  \A i \in 1..Len(sent) :
    sent[i].type = "alert" =>
      /\ i > 1
      /\ sent[i - 1].type = "iot_update"
      /\ sent[i - 1].call = sent[i].call

\* C17 amended: among the messages of one request the alert is the second
\* and last, directly after the iot_update, and is there only for a HIGH
\* request; messages of other requests may lie in between.
C17_AlertSecondOfItsRequest ==
  \A c \in Calls :
    LET mine == SentOf(c)
    IN /\ Len(mine) <= 2
       /\ Len(mine) >= 1 => mine[1].type = "iot_update"
       /\ Len(mine) = 2 =>
            /\ mine[2].type = "alert"
            /\ result[c].risk_level = "HIGH"

\* C17 witness: the iot_update of another request lies between the
\* iot_update and the alert of a HIGH request
C17_Witness ==
  \E i \in 1..Len(sent) :
    /\ i + 2 <= Len(sent)
    /\ sent[i].type = "iot_update"
    /\ sent[i + 1].type = "iot_update"
    /\ sent[i + 1].call # sent[i].call
    /\ sent[i + 2].type = "alert"
    /\ sent[i + 2].call = sent[i].call

\* C18: the level is HIGH iff the verdict is outlier and the cluster is 6 or
\* 7, whatever the anomaly score; the score is a multiple of 10 in 0..70; an
\* Alert row and an alert message exist only for such requests.
C18_HighIffOutlierInRiskCluster ==
  LET risky(c) == loc[c].anomaly_flag = -1 /\ loc[c].cluster_id \in {6, 7}
  IN /\ \A c \in Calls :
          Classified(c) =>
            /\ (loc[c].level = "HIGH") <=> risky(c)
            /\ loc[c].score \in {0, 10, 20, 30, 40, 50, 60, 70}
     /\ \A i \in 1..Len(db) : db[i].kind = "Alert" => risky(db[i].call)
     /\ \A i \in 1..Len(sent) : sent[i].type = "alert" => risky(sent[i].call)

\* C18 witness: an alert was committed and broadcast for an outlier in a
\* high-risk cluster whose anomaly score is small (score 60)
C18_Witness ==
  \E c \in Calls :
    /\ Abs(loc[c].anomaly_score) <= 15
    /\ loc[c].score = 60
    /\ Len(RowsOf(c, "Alert")) = 1
    /\ \E i \in 1..Len(sent) : sent[i].type = "alert" /\ sent[i].call = c

\* C19: the returned result, the result in the request's iot_update message
\* and the committed RiskLog agree on risk_score, risk_level and cluster, and
\* the alert message has the risk_score, store and dept of the committed
\* Alert.
C19_ResultAgreement ==
  \A c \in Calls :
    LET risk == RowsOf(c, "RiskLog")
        alert == RowsOf(c, "Alert")
        mine == SentOf(c)
        agrees(b) == /\ Len(risk) = 1
                     /\ b.risk_score = risk[1].risk_score
                     /\ b.risk_level = risk[1].risk_level
                     /\ b.cluster = risk[1].cluster
    IN /\ response[c].code = "ok" => agrees(response[c].body)
       /\ \A i \in 1..Len(mine) :
            /\ mine[i].type = "iot_update" =>
                 /\ agrees(mine[i].result)
                 /\ mine[i].result = response[c].body
            /\ mine[i].type = "alert" =>
                 /\ Len(alert) = 1
                 /\ mine[i].risk_score = alert[1].risk_score
                 /\ mine[i].store = alert[1].store
                 /\ mine[i].dept = alert[1].dept

\* C19 witness: a request has returned and both its messages were broadcast
C19_Witness ==
  \E c \in Calls :
    /\ response[c].code = "ok"
    /\ Len(SentOf(c)) = 2
    /\ SentOf(c)[2].type = "alert"
    /\ SentOf(c)[2].risk_score = 70

====
